---- MODULE Spec2Model ----
(***************************************************************************)
(* Xapian::ESet and Xapian::ESetIterator (xapian-core/include/xapian/      *)
(* eset.h): a reference-counted handle on the list of expansion terms and  *)
(* the iterator over it, which stores its position as an offset from the   *)
(* end of the list.                                                        *)
(*                                                                         *)
(* The header holds the bodies of swap, empty, max_size, begin, end,       *)
(* operator[], back, the iterator's constructors, ++, --, == and !=.  The  *)
(* bodies of the ESet constructors, assignment, destructor, size(),        *)
(* get_ebound(), ESetIterator::operator*, get_weight() and of              *)
(* Xapian::Internal::intrusive_ptr are in other files of the library; they *)
(* are modelled here from the specification's description of them.         *)
(***************************************************************************)
EXTENDS Integers, Sequences, FiniteSets, TLC

(* ------------------------------ bounds --------------------------------- *)

\* How many ESet::Internal objects are ever allocated in one behaviour.
MaxStores == 2
\* How many ESet objects exist at once.
MaxHandles == 3
\* How many ESetIterator objects exist at once.
MaxCursors == 2
\* The longest list of expansion terms a produced ESet holds.
MaxLen == 2
\* How many ESetIterator objects exist at once while ESets are copied,
\* assigned, swapped and destroyed (specification Spec).
OwnerCursors == 1

(* ----------------------- unsigned arithmetic --------------------------- *)

\* Xapian::doccount and Xapian::termcount are `unsigned`: 32 bits, whose
\* arithmetic wraps modulo 2^32.  TLC's integers are 32-bit signed, so an
\* unsigned value is kept as two 16-bit halves, value = hi * 2^16 + lo.
HalfBase == 65536

Unsigned == [hi : 0 .. HalfBase - 1, lo : 0 .. HalfBase - 1]

\* The unsigned value of a small natural number.
U(n) == [hi |-> n \div HalfBase, lo |-> n % HalfBase]

UnsignedMax == [hi |-> HalfBase - 1, lo |-> HalfBase - 1]

\* --x on an unsigned x.
UDec(x) ==
    IF x.lo > 0 THEN [x EXCEPT !.lo = @ - 1]
    ELSE IF x.hi > 0 THEN [hi |-> x.hi - 1, lo |-> HalfBase - 1]
    ELSE UnsignedMax

\* ++x on an unsigned x.
UInc(x) ==
    IF x.lo < HalfBase - 1 THEN [x EXCEPT !.lo = @ + 1]
    ELSE IF x.hi < HalfBase - 1 THEN [hi |-> x.hi + 1, lo |-> 0]
    ELSE U(0)

\* a - b on unsigned a and b.
USub(a, b) ==
    LET borrow == IF a.lo < b.lo THEN 1 ELSE 0
        lo == (a.lo - b.lo + HalfBase) % HalfBase
        hi == (a.hi - b.hi - borrow + 2 * HalfBase) % HalfBase
    IN  [hi |-> hi, lo |-> lo]

\* a <= n and 0 < a, for an unsigned a and a small natural number n.
UInRange(a, n) == a.hi = 0 /\ 0 < a.lo /\ a.lo <= n

(* ------------------------------ state ---------------------------------- *)

\* The null intrusive_ptr.
NULL == 0

StoreIds == 1 .. MaxStores
HandleIds == 1 .. MaxHandles
CursorIds == 1 .. MaxCursors

VARIABLES
    internals,  \* the ESet::Internal objects: status, items, ebound, _refs
    esets,      \* the ESet objects: alive, internal (a store id or NULL)
    iters,      \* the ESetIterator objects: alive, eset (the embedded ESet's
                \* internal), off_from_end
    last        \* the most recent call: what was called, on what, its result

vars == <<internals, esets, iters, last>>

\* An ESet::Internal that was never allocated, and one that was deleted.
FreeStore == [status |-> "free", items |-> <<>>, ebound |-> 0, refs |-> 0]
DeadStore == [status |-> "dead", items |-> <<>>, ebound |-> 0, refs |-> 0]

\* A slot holding no ESet, and one holding no ESetIterator.
NoESet == [alive |-> FALSE, internal |-> NULL]
NoIter == [alive |-> FALSE, eset |-> NULL, off_from_end |-> U(0)]

\* The record of a call: its name, the ESet slots (h, o) and ESetIterator
\* slots (c, d) it took or filled, its index argument (i), the store the
\* object it worked on referred to (s), the cursor's position before it (pre)
\* and, for a -- that directly follows a ++ of the same cursor, the position
\* before that ++ (rt; start says whether there is one), and how it ended
\* (out): "ok", "cursor" when it returned an iterator, "moved" when it moved
\* one.  None of the calls modelled as actions has a path that ends in an
\* error.
NoCall ==
    [op |-> "none", h |-> 0, o |-> 0, c |-> 0, d |-> 0, i |-> 0, s |-> NULL,
     pre |-> U(0), start |-> FALSE, rt |-> U(0), out |-> "ok"]

(* --------------------- the reference-counted pointer ------------------- *)

\* intrusive_ptr's copy: one more reference to the object, if there is one.
\* (A pointer to a deleted object is never copied or released by the calls
\* below; the count of such an object is left alone.)
AddRef(st, s) ==
    IF s = NULL \/ st[s].status # "live" THEN st
    ELSE [st EXCEPT ![s].refs = @ + 1]

\* intrusive_ptr's destructor: one reference fewer, and the object is deleted
\* with the last one.
Release(st, s) ==
    IF s = NULL \/ st[s].status # "live" THEN st
    ELSE IF st[s].refs <= 1 THEN [st EXCEPT ![s] = DeadStore]
    ELSE [st EXCEPT ![s].refs = @ - 1]

(* -------------------------------- ESet --------------------------------- *)

\* ESet::ESet(): an empty ESet with no internals attached.
ESet_default == [alive |-> TRUE, internal |-> NULL]

\* ESet::ESet(const ESet & o): the copy shares o's internals.
ESet_copy(st, o) ==
    [st |-> AddRef(st, o.internal),
     eset |-> [alive |-> TRUE, internal |-> o.internal]]

\* ESet::operator=(const ESet & o): take a reference to o's internals, then
\* release the ones held before.
ESet_assign(st, e, o) ==
    [st |-> Release(AddRef(st, o.internal), e.internal),
     eset |-> [e EXCEPT !.internal = o.internal]]

\* ESet::~ESet(): releases the reference.
ESet_destroy(st, e) == Release(st, e.internal)

\* ESet::size(): the number of items of the internals, 0 without internals.
ESet_size(st, e) ==
    IF e.internal = NULL THEN U(0) ELSE U(Len(st[e.internal].items))

\* ESet::empty()
ESet_empty(st, e) == ESet_size(st, e) = U(0)

\* ESet::get_ebound(): the internals' bound, 0 without internals.
ESet_get_ebound(st, e) ==
    IF e.internal = NULL THEN U(0) ELSE U(st[e.internal].ebound)

\* ESet::max_size()
ESet_max_size(st, e) == ESet_size(st, e)

\* A swap written as an assignment: internal = o.internal.
ESet_swap_Assign(es, a, b) == [es EXCEPT ![a].internal = es[b].internal]

\* ESet::swap(ESet & o): internal.swap(o.internal), on the ESets in slots a
\* and b of es.
ESet_swap(es, a, b) ==
    [es EXCEPT ![a].internal = es[b].internal, ![b].internal = es[a].internal]

(* ---------------------------- ESetIterator ----------------------------- *)

\* An iterator whose member is declared `const Xapian::ESet & eset`: it refers
\* to the internals of eset_ without holding a reference of its own.
ESetIterator_ctor_ByReference(st, eset_, off) ==
    [st |-> st,
     it |-> [alive |-> TRUE, eset |-> eset_.internal, off_from_end |-> off]]

\* An iterator whose constructor leaves out `eset(eset_)`: the member is a
\* default-constructed ESet.
ESetIterator_ctor_Detached(st, eset_, off) ==
    [st |-> st,
     it |-> [alive |-> TRUE, eset |-> NULL, off_from_end |-> off]]

\* ESetIterator(const ESet & eset_, doccount off_from_end_): the member
\* `Xapian::ESet eset` is a copy of eset_, so it holds a reference of its own.
ESetIterator_ctor(st, eset_, off) ==
    LET cp == ESet_copy(st, eset_)
    IN  [st |-> cp.st,
         it |-> [alive |-> TRUE, eset |-> cp.eset.internal,
                 off_from_end |-> off]]

\* ESetIterator(): unpositioned, off_from_end 0, on a default ESet.
ESetIterator_default ==
    [alive |-> TRUE, eset |-> ESet_default.internal, off_from_end |-> U(0)]

\* The embedded ESet of an iterator, as an ESet.
EmbeddedESet(it) == [alive |-> it.alive, internal |-> it.eset]

\* `ESetIterator retval = *this;`: the copy embeds a copy of the ESet.
ESetIterator_copy(st, it) ==
    ESetIterator_ctor(st, EmbeddedESet(it), it.off_from_end)

\* ~ESetIterator(): destroys the embedded ESet.
ESetIterator_destroy(st, it) == ESet_destroy(st, EmbeddedESet(it))

\* A ++ that stays at the end instead of stepping past it.
ESetIterator_preinc_Saturating(it) ==
    IF it.off_from_end = U(0) THEN it
    ELSE [it EXCEPT !.off_from_end = UDec(@)]

\* ESetIterator::operator++(): --off_from_end.
ESetIterator_preinc(it) == [it EXCEPT !.off_from_end = UDec(@)]

\* A -- that moves the way ++ does: --off_from_end.
ESetIterator_predec_Decrement(it) == [it EXCEPT !.off_from_end = UDec(@)]

\* ESetIterator::operator--(): ++off_from_end.
ESetIterator_predec(it) == [it EXCEPT !.off_from_end = UInc(@)]

\* ESetIterator::operator++(int): the copy taken before the move is returned.
ESetIterator_postinc(st, it) ==
    LET retval == ESetIterator_copy(st, it)
    IN  [st |-> retval.st, self |-> [it EXCEPT !.off_from_end = UDec(@)],
         retval |-> retval.it]

\* ESetIterator::operator--(int)
ESetIterator_postdec(st, it) ==
    LET retval == ESetIterator_copy(st, it)
    IN  [st |-> retval.st, self |-> [it EXCEPT !.off_from_end = UInc(@)],
         retval |-> retval.it]

\* An equality that also asks for the same internals.
IterEq_SameSet(a, b) == a.eset = b.eset /\ a.off_from_end = b.off_from_end

\* operator==(const ESetIterator &a, const ESetIterator &b)
IterEq(a, b) == a.off_from_end = b.off_from_end

\* operator!=(const ESetIterator &a, const ESetIterator &b)
IterNe(a, b) == ~IterEq(a, b)

\* Whether an iterator is positioned on an entry: 0 < off_from_end <= size.
Positioned(st, it) ==
    /\ it.eset # NULL
    /\ st[it.eset].status = "live"
    /\ UInRange(it.off_from_end, Len(st[it.eset].items))

\* The logical index (from 0) of a positioned iterator: size - off_from_end.
IndexOf(st, it) == Len(st[it.eset].items) - it.off_from_end.lo

\* ESetIterator::operator*() and get_weight(): the entry at the position, or
\* an error for an iterator that is not positioned on one.
ESetIterator_entry(st, it) ==
    IF Positioned(st, it)
    THEN [out |-> "ok", term |-> st[it.eset].items[IndexOf(st, it) + 1].term,
          weight |-> st[it.eset].items[IndexOf(st, it) + 1].weight]
    ELSE [out |-> "error", term |-> "", weight |-> 0]

(* --------------- ESet's methods that return an iterator ---------------- *)

\* A begin() that takes the offset for an index from the front.
ESet_begin_FromZero(st, e) == ESetIterator_ctor(st, e, U(0))

\* ESet::begin(): ESetIterator(*this, size())
ESet_begin(st, e) == ESetIterator_ctor(st, e, ESet_size(st, e))

\* ESet::end(): ESetIterator(*this, 0)
ESet_end(st, e) == ESetIterator_ctor(st, e, U(0))

\* An operator[] that stores the index from the front.
ESet_at_Forward(st, e, i) == ESetIterator_ctor(st, e, i)

\* An operator[] that clamps an index past the end to end().
ESet_at_Clamped(st, e, i) ==
    ESetIterator_ctor(st, e,
        IF i.lo > ESet_size(st, e).lo THEN U(0) ELSE USub(ESet_size(st, e), i))

\* ESet::operator[](doccount i): ESetIterator(*this, size() - i)
ESet_at(st, e, i) == ESetIterator_ctor(st, e, USub(ESet_size(st, e), i))

\* A back() that returns the end position.
ESet_back_End(st, e) == ESetIterator_ctor(st, e, U(0))

\* ESet::back(): ESetIterator(*this, 1)
ESet_back(st, e) == ESetIterator_ctor(st, e, U(1))

(* ----------------------------- the producer ---------------------------- *)

\* The terms the expansion suggests.
Terms == {"cat", "dog"}

\* The list the expansion algorithm hands over: n entries in rank order, the
\* weights falling with the rank, the terms alternating from `first`.
NewItems(n, first) ==
    [j \in 1 .. n |->
        [term |-> IF j % 2 = 1 THEN first ELSE CHOOSE x \in Terms : x # first,
         weight |-> 10 * (MaxLen + 2 - j) + 5]]

\* A new ESet::Internal: the items and the bound, which is the number of
\* items when the list is whole and larger when it was cut to the best ones.
NewInternal(n, first, cut) ==
    [status |-> "live", items |-> NewItems(n, first),
     ebound |-> IF cut THEN n + 1 ELSE n, refs |-> 1]

(* ------------------------------- actions ------------------------------- *)

HasFreeStore == \E s \in StoreIds : internals[s].status = "free"
NextStore == CHOOSE s \in StoreIds :
    /\ internals[s].status = "free"
    /\ \A r \in 1 .. s - 1 : internals[r].status # "free"

HasFreeHandle == \E h \in HandleIds : ~esets[h].alive
NextHandle == CHOOSE h \in HandleIds :
    ~esets[h].alive /\ \A g \in 1 .. h - 1 : esets[g].alive

HasFreeCursor == \E c \in CursorIds : ~iters[c].alive
NextCursor == CHOOSE c \in CursorIds :
    ~iters[c].alive /\ \A b \in 1 .. c - 1 : iters[b].alive

\* The expansion algorithm returns an ESet on a new ESet::Internal.
Produce(n, first, cut) ==
    /\ HasFreeStore /\ HasFreeHandle
    /\ internals' = [internals EXCEPT ![NextStore] = NewInternal(n, first, cut)]
    /\ esets' = [esets EXCEPT
                    ![NextHandle] = [alive |-> TRUE, internal |-> NextStore]]
    /\ last' = [NoCall EXCEPT !.op = "produce", !.h = NextHandle,
                                !.s = NextStore]
    /\ UNCHANGED iters

\* ESet e;
Construct ==
    /\ HasFreeHandle
    /\ esets' = [esets EXCEPT ![NextHandle] = ESet_default]
    /\ last' = [NoCall EXCEPT !.op = "construct", !.h = NextHandle]
    /\ UNCHANGED <<internals, iters>>

\* ESet e(o);
Copy(o) ==
    /\ HasFreeHandle /\ esets[o].alive
    /\ LET r == ESet_copy(internals, esets[o])
       IN  /\ internals' = r.st
           /\ esets' = [esets EXCEPT ![NextHandle] = r.eset]
    /\ last' = [NoCall EXCEPT !.op = "copy", !.h = NextHandle, !.o = o,
                                !.s = esets[o].internal]
    /\ UNCHANGED iters

\* h = o;
Assign(h, o) ==
    /\ esets[h].alive /\ esets[o].alive
    /\ LET r == ESet_assign(internals, esets[h], esets[o])
       IN  /\ internals' = r.st
           /\ esets' = [esets EXCEPT ![h] = r.eset]
    /\ last' = [NoCall EXCEPT !.op = "assign", !.h = h, !.o = o,
                                !.s = esets[h].internal]
    /\ UNCHANGED iters

\* h.swap(o);
Swap(h, o) ==
    /\ esets[h].alive /\ esets[o].alive
    /\ esets' = ESet_swap(esets, h, o)
    /\ last' = [NoCall EXCEPT !.op = "swap", !.h = h, !.o = o]
    /\ UNCHANGED <<internals, iters>>

\* The ESet in slot h goes out of scope.
Destroy(h) ==
    /\ esets[h].alive
    /\ internals' = ESet_destroy(internals, esets[h])
    /\ esets' = [esets EXCEPT ![h] = NoESet]
    /\ last' = [NoCall EXCEPT !.op = "destroy", !.h = h, !.s = esets[h].internal]
    /\ UNCHANGED iters

\* A call that returns an iterator made of the ESet in slot h.
MakeIter(op, h, i, r) ==
    /\ HasFreeCursor /\ esets[h].alive
    /\ internals' = r.st
    /\ iters' = [iters EXCEPT ![NextCursor] = r.it]
    /\ last' = [NoCall EXCEPT !.op = op, !.h = h, !.c = NextCursor, !.i = i,
                                !.s = esets[h].internal, !.out = "cursor"]
    /\ UNCHANGED esets

Begin(h) == MakeIter("begin", h, 0, ESet_begin(internals, esets[h]))
End(h) == MakeIter("end", h, 0, ESet_end(internals, esets[h]))
At(h, i) == MakeIter("at", h, i, ESet_at(internals, esets[h], U(i)))
Back(h) == MakeIter("back", h, 0, ESet_back(internals, esets[h]))

\* ESetIterator it;
IterConstruct ==
    /\ HasFreeCursor
    /\ iters' = [iters EXCEPT ![NextCursor] = ESetIterator_default]
    /\ last' = [NoCall EXCEPT !.op = "iterator", !.c = NextCursor,
                                !.out = "cursor"]
    /\ UNCHANGED <<internals, esets>>

\* The ESetIterator in slot c goes out of scope.
IterDestroy(c) ==
    /\ iters[c].alive
    /\ internals' = ESetIterator_destroy(internals, iters[c])
    /\ iters' = [iters EXCEPT ![c] = NoIter]
    /\ last' = [NoCall EXCEPT !.op = "iterdestroy", !.c = c, !.s = iters[c].eset]
    /\ UNCHANGED esets

\* The positions the model moves a cursor from: the list, one step either
\* side of it, and the values operator[] wraps to.
MayAdvance(off) == off.hi = 0 /\ off.lo <= MaxLen + 1
MayRetreat(off) == (off.hi = 0 /\ off.lo <= MaxLen) \/ off.hi = HalfBase - 1

\* What last records of a -- : the position before a ++ of the same cursor
\* that came directly before it.
AfterAdvance(c) == last.op \in {"preinc", "postinc"} /\ last.c = c

\* ++it;
PreInc(c) ==
    /\ iters[c].alive /\ MayAdvance(iters[c].off_from_end)
    /\ iters' = [iters EXCEPT ![c] = ESetIterator_preinc(iters[c])]
    /\ last' = [NoCall EXCEPT !.op = "preinc", !.out = "moved", !.c = c,
                                !.s = iters[c].eset,
                                !.pre = iters[c].off_from_end]
    /\ UNCHANGED <<internals, esets>>

\* --it;
PreDec(c) ==
    /\ iters[c].alive /\ MayRetreat(iters[c].off_from_end)
    /\ iters' = [iters EXCEPT ![c] = ESetIterator_predec(iters[c])]
    /\ last' = [NoCall EXCEPT !.op = "predec", !.out = "moved", !.c = c,
                                !.s = iters[c].eset,
                                !.pre = iters[c].off_from_end,
                                !.start = AfterAdvance(c),
                                !.rt = IF AfterAdvance(c) THEN last.pre ELSE U(0)]
    /\ UNCHANGED <<internals, esets>>

\* it++, the returned copy kept in a free slot.
PostInc(c) ==
    /\ iters[c].alive /\ MayAdvance(iters[c].off_from_end) /\ HasFreeCursor
    /\ LET r == ESetIterator_postinc(internals, iters[c])
       IN  /\ internals' = r.st
           /\ iters' = [iters EXCEPT ![c] = r.self, ![NextCursor] = r.retval]
    /\ last' = [NoCall EXCEPT !.op = "postinc", !.out = "moved", !.c = c,
                                !.d = NextCursor,
                                !.s = iters[c].eset,
                                !.pre = iters[c].off_from_end]
    /\ UNCHANGED esets

\* it--, the returned copy kept in a free slot.
PostDec(c) ==
    /\ iters[c].alive /\ MayRetreat(iters[c].off_from_end) /\ HasFreeCursor
    /\ LET r == ESetIterator_postdec(internals, iters[c])
       IN  /\ internals' = r.st
           /\ iters' = [iters EXCEPT ![c] = r.self, ![NextCursor] = r.retval]
    /\ last' = [NoCall EXCEPT !.op = "postdec", !.out = "moved", !.c = c,
                                !.d = NextCursor,
                                !.s = iters[c].eset,
                                !.pre = iters[c].off_from_end,
                                !.start = AfterAdvance(c),
                                !.rt = IF AfterAdvance(c) THEN last.pre ELSE U(0)]
    /\ UNCHANGED esets

(* ---------------------------- specifications --------------------------- *)

HandleStep ==
    \* (a list that reaches MaxLen entries is one that was cut to the best)
    \/ \E n \in 0 .. MaxLen : Produce(n, "cat", n = MaxLen)
    \/ Construct
    \/ \E o \in HandleIds : Copy(o)
    \/ \E h, o \in HandleIds : Assign(h, o)
    \/ \E h, o \in HandleIds : Swap(h, o)
    \/ \E h \in HandleIds : Destroy(h)

CreateStep ==
    \/ \E h \in HandleIds : Begin(h)
    \/ \E h \in HandleIds : End(h)
    \/ \E h \in HandleIds, i \in 0 .. MaxLen + 1 : At(h, i)
    \/ \E h \in HandleIds : Back(h)
    \/ IterConstruct

MoveStep ==
    \/ \E c \in CursorIds : PreInc(c)
    \/ \E c \in CursorIds : PreDec(c)
    \/ \E c \in CursorIds : PostInc(c)
    \/ \E c \in CursorIds : PostDec(c)

\* The lifetime of the internals: ESets are produced, constructed, copied,
\* assigned, swapped and destroyed, and iterators are made of them and
\* destroyed, at most OwnerCursors of them alive at a time.  Nothing has been
\* constructed at the start.
Init ==
    /\ internals = [s \in StoreIds |-> FreeStore]
    /\ esets = [h \in HandleIds |-> NoESet]
    /\ iters = [c \in CursorIds |-> NoIter]
    /\ last = NoCall

FewCursors == Cardinality({c \in CursorIds : iters[c].alive}) < OwnerCursors

Next ==
    \/ HandleStep
    \/ FewCursors /\ CreateStep
    \/ \E c \in CursorIds : IterDestroy(c)

Spec == Init /\ [][Next]_vars

\* The cursor protocol: an ESet the expansion produced (any list up to MaxLen
\* entries) and a second one, default-constructed or produced, whose
\* iterators are made, moved and destroyed.
CursorInit ==
    \E n \in 0 .. MaxLen, first \in Terms, cut \in BOOLEAN, m \in -1 .. MaxLen :
        /\ internals = [s \in StoreIds |->
              IF s = 1 THEN NewInternal(n, first, cut)
              ELSE IF s = 2 /\ m >= 0 THEN NewInternal(m, "dog", TRUE)
              ELSE FreeStore]
        /\ esets = [h \in HandleIds |->
              IF h = 1 THEN [alive |-> TRUE, internal |-> 1]
              ELSE IF h = 2 THEN [alive |-> TRUE,
                                  internal |-> IF m >= 0 THEN 2 ELSE NULL]
              ELSE NoESet]
        /\ iters = [c \in CursorIds |-> NoIter]
        /\ last = NoCall

CursorNext ==
    \/ CreateStep
    \/ MoveStep
    \/ \E c \in CursorIds : IterDestroy(c)

CursorSpec == CursorInit /\ [][CursorNext]_vars

(* ------------------------------ reading -------------------------------- *)

\* What a caller reads through an ESet: size(), get_ebound(), max_size(),
\* empty() and, through operator[] and the iterator, the entry at each index.
ReadAll(st, e) ==
    [size |-> ESet_size(st, e),
     bound |-> ESet_get_ebound(st, e),
     max_size |-> ESet_max_size(st, e),
     empty |-> ESet_empty(st, e),
     entries |-> [i \in 0 .. ESet_size(st, e).lo - 1 |->
                    ESetIterator_entry(st, ESet_at(st, e, U(i)).it)]]

\* The live ESets and the live iterators that refer to store s.
HandlesOn(s) == {h \in HandleIds : esets[h].alive /\ esets[h].internal = s}
CursorsOn(s) == {c \in CursorIds : iters[c].alive /\ iters[c].eset = s}

(* ------------------------- claims under Spec --------------------------- *)

\* C1: a store is destroyed only when the last reference to it is released,
\* every live ESet and every live iterator (through the ESet it embeds)
\* counting as one: the count of a live store is the number of live ESets and
\* iterators that refer to it and is at least one, and no live ESet or
\* iterator refers to a store that was destroyed or never allocated.
C1_DestroyedWithLastReference ==
    \A s \in StoreIds :
        LET n == Cardinality(HandlesOn(s)) + Cardinality(CursorsOn(s))
        IN  IF internals[s].status = "live"
            THEN internals[s].refs = n /\ n >= 1
            ELSE n = 0

\* C1's case: the last ESet on a store has just been destroyed while an
\* iterator made of it is alive, and the iterator still reads its entry.
C1_Witness ==
    /\ last.op = "destroy" /\ last.s # NULL
    /\ HandlesOn(last.s) = {}
    /\ \E c \in CursorsOn(last.s) :
          ESetIterator_entry(internals, iters[c]).out = "ok"
    /\ \E s \in StoreIds : internals[s].status = "dead"

\* What a step may do to the ESet in slot g: nothing, unless the call is one
\* on that ESet.
Untouched(g) ==
    /\ esets[g].alive /\ esets'[g].alive
    /\ ~(last'.op \in {"assign", "swap"} /\ g = last'.h)
    /\ ~(last'.op = "swap" /\ g = last'.o)

\* C6: a copy or an assignment makes the ESet share the other's store, so
\* that it reads the same size, bound and entries (and so does the ESet an
\* iterator embeds, which is a copy of the one it was made of); no step
\* changes the items or the bound of a store; and what is read through an
\* ESet changes only by an assignment to or a swap of that ESet.
C6_CopySharesStore ==
    [][ /\ last'.op \in {"copy", "assign"} =>
            /\ esets'[last'.h].internal = esets[last'.o].internal
            /\ ReadAll(internals', esets'[last'.h])
                  = ReadAll(internals, esets[last'.o])
            /\ ReadAll(internals', esets'[last'.h])
                  = ReadAll(internals', esets'[last'.o])
        /\ last'.op \in {"begin", "end", "at", "back"} =>
            /\ iters'[last'.c].eset = esets[last'.h].internal
            /\ ReadAll(internals', EmbeddedESet(iters'[last'.c]))
                  = ReadAll(internals, esets[last'.h])
        /\ \A s \in StoreIds :
            internals[s].status = "live" /\ internals'[s].status = "live" =>
                /\ internals'[s].items = internals[s].items
                /\ internals'[s].ebound = internals[s].ebound
        /\ \A g \in HandleIds :
            Untouched(g) =>
                /\ esets'[g].internal = esets[g].internal
                /\ internals' # internals =>
                    ReadAll(internals', esets'[g]) = ReadAll(internals, esets[g])
      ]_vars

\* C6's case: an ESet has just been copied from one with entries, a third
\* ESet on another store exists, and the copy reads what the original reads.
C6_Witness ==
    /\ last.op = "copy" /\ last.s # NULL
    /\ ESet_size(internals, esets[last.h]).lo >= 1
    /\ ReadAll(internals, esets[last.h]) = ReadAll(internals, esets[last.o])
    /\ \E g \in HandleIds : esets[g].alive /\ esets[g].internal # last.s

\* C10: swap exchanges the stores of the two ESets it is called on, so that
\* each reads what the other read before; every other ESet and every
\* iterator is left as it was, and no store's count, status or data changes.
C10_SwapFrame ==
    [][ last'.op = "swap" =>
          /\ esets'[last'.h].internal = esets[last'.o].internal
          /\ esets'[last'.o].internal = esets[last'.h].internal
          /\ ReadAll(internals', esets'[last'.h])
                = ReadAll(internals, esets[last'.o])
          /\ ReadAll(internals', esets'[last'.o])
                = ReadAll(internals, esets[last'.h])
          /\ \A g \in HandleIds \ {last'.h, last'.o} : esets'[g] = esets[g]
          /\ \A c \in CursorIds :
                /\ iters'[c] = iters[c]
                /\ ESetIterator_entry(internals', iters'[c])
                      = ESetIterator_entry(internals, iters[c])
          /\ internals' = internals
      ]_vars

\* C10's case: two ESets on stores of different sizes have just been swapped
\* while a third ESet and an iterator refer to the store the first had.
C10_Witness ==
    /\ last.op = "swap" /\ last.h # last.o
    /\ esets[last.h].internal # NULL /\ esets[last.o].internal # NULL
    /\ ESet_size(internals, esets[last.h]) # ESet_size(internals, esets[last.o])
    /\ \E g \in HandleIds \ {last.h, last.o} :
          esets[g].alive /\ esets[g].internal = esets[last.o].internal
    /\ \E c \in CursorsOn(esets[last.o].internal) :
          ESetIterator_entry(internals, iters[c]).out = "ok"

(* ---------------------- claims under CursorSpec ------------------------ *)

\* The size of the set an iterator is on, as a number.
IterSize(it) == ESet_size(internals, EmbeddedESet(it)).lo

\* The size of the ESet in slot h, as a number.
SizeOf(h) == ESet_size(internals, esets[h]).lo

LiveHandles == {h \in HandleIds : esets[h].alive}
LiveCursors == {c \in CursorIds : iters[c].alive}

\* ++ applied k times.
RECURSIVE AdvanceN(_, _)
AdvanceN(it, k) == IF k = 0 THEN it ELSE AdvanceN(ESetIterator_preinc(it), k - 1)

\* The last call was operator[] with an index past the last entry, or back()
\* on an ESet without entries.
OutOfRangeCall ==
    \/ last.op = "at" /\ last.i >= SizeOf(last.h)
    \/ last.op = "back" /\ SizeOf(last.h) = 0

\* C2 as stated: an out-of-range operator[] or back() ends in an error and
\* returns no iterator.
C2_OutOfRangeFailsFast ==
    OutOfRangeCall => last.out = "error" /\ ~iters[last.c].alive

\* C2 as amended: an out-of-range operator[] or back() is not checked and
\* returns an iterator: operator[] one at size() - index in unsigned
\* arithmetic, which equals end() for index = size() and is wrapped to a
\* value above size() (not clamped into [0, size()]) for a larger index,
\* back() one at 1; neither is positioned on an entry.
C2_OutOfRangeUnchecked ==
    OutOfRangeCall =>
        LET it == iters[last.c]
            n == SizeOf(last.h)
        IN  /\ last.out = "cursor" /\ it.alive
            /\ it.eset = esets[last.h].internal
            /\ ~Positioned(internals, it)
            /\ last.op = "at" /\ last.i = n =>
                  /\ it.off_from_end = U(0)
                  /\ IterEq(it, ESet_end(internals, esets[last.h]).it)
            /\ last.op = "at" /\ last.i > n =>
                  /\ it.off_from_end.hi = HalfBase - 1
                  /\ it.off_from_end.lo = HalfBase - (last.i - n)
                  /\ IterNe(it, ESet_end(internals, esets[last.h]).it)
            /\ last.op = "back" => it.off_from_end = U(1) /\ n = 0

\* C2's case: operator[] was called with an index two past the size.
C2_Witness ==
    /\ last.op = "at" /\ last.i = SizeOf(last.h) + 2 /\ SizeOf(last.h) >= 1
    /\ iters[last.c].alive

\* The last call was a ++ of an iterator that was at end().
AdvancedAtEnd == last.op \in {"preinc", "postinc"} /\ last.pre = U(0)

\* The last call was a -- of an iterator that was at begin().
RetreatedAtBegin ==
    /\ last.op \in {"predec", "postdec"}
    /\ last.pre = U(IterSize(iters[last.c]))

\* An iterator whose offset is not in [0, size()].
OutOfBounds(it) ==
    ~(it.off_from_end.hi = 0 /\ it.off_from_end.lo <= IterSize(it))

\* C3 as stated: a ++ at end() fails, and an iterator moved out of
\* [0, size()] cannot be dereferenced.
C3_AdvanceAtEndFails ==
    /\ AdvancedAtEnd => last.out = "error"
    /\ \A c \in LiveCursors :
          OutOfBounds(iters[c]) =>
              ESetIterator_entry(internals, iters[c]).out = "error"

\* C3 as amended: a ++ at end() does not fail and is not a no-op: it wraps
\* the unsigned offset to its largest value, which is out of [0, size()] and
\* no longer equal to end(), and one -- brings it back to end(); a -- at
\* begin() leaves the offset at size() + 1; and an iterator whose offset is
\* out of [0, size()] cannot be dereferenced.
C3_AdvanceAtEndWraps ==
    /\ AdvancedAtEnd =>
          LET it == iters[last.c]
          IN  /\ last.out = "moved"
              /\ it.off_from_end = UnsignedMax
              /\ OutOfBounds(it)
              /\ IterNe(it, ESet_end(internals, EmbeddedESet(it)).it)
              /\ ESetIterator_predec(it).off_from_end = U(0)
    /\ RetreatedAtBegin =>
          LET it == iters[last.c]
          IN  /\ last.out = "moved"
              /\ it.off_from_end = U(IterSize(it) + 1)
              /\ OutOfBounds(it)
    /\ \A c \in LiveCursors :
          OutOfBounds(iters[c]) =>
              ESetIterator_entry(internals, iters[c]).out = "error"

\* C3's case: an iterator at end() of a set with entries has been advanced.
C3_Witness ==
    /\ AdvancedAtEnd /\ last.op = "preinc"
    /\ IterSize(iters[last.c]) >= 1
    /\ iters[last.c].off_from_end = UnsignedMax

\* C4: begin() == end() exactly when size() is 0, for every ESet, the
\* default-constructed one included, and for the iterators actually returned.
C4_BeginIsEndIffEmpty ==
    /\ \A h \in LiveHandles :
          LET b == ESet_begin(internals, esets[h]).it
              e == ESet_end(internals, esets[h]).it
          IN  /\ IterEq(b, e) <=> SizeOf(h) = 0
              /\ IterEq(b, e) <=> ESet_empty(internals, esets[h])
              /\ IterNe(b, e) <=> SizeOf(h) > 0
    /\ last.op = "begin" =>
          (IterEq(iters[last.c], ESet_end(internals, esets[last.h]).it)
              <=> SizeOf(last.h) = 0)
    /\ last.op = "end" =>
          (IterEq(ESet_begin(internals, esets[last.h]).it, iters[last.c])
              <=> SizeOf(last.h) = 0)

\* C4's case: begin() of a default-constructed ESet was called while an
\* iterator that end() of it returned is alive, and the two are equal.
C4_Witness ==
    /\ last.op = "begin" /\ esets[last.h].internal = NULL
    /\ \E d \in LiveCursors \ {last.c} :
          /\ iters[d] = ESet_end(internals, esets[last.h]).it
          /\ IterEq(iters[last.c], iters[d])

\* C5: for an index i below size(), operator[] returns the position that i
\* advances of begin() reach, at offset size() - i, and it dereferences to
\* the entry of index i.
C5_AtIsBeginAdvanced ==
    /\ \A h \in LiveHandles : \A i \in 0 .. MaxLen :
          i < SizeOf(h) =>
              LET a == ESet_at(internals, esets[h], U(i)).it
                  b == AdvanceN(ESet_begin(internals, esets[h]).it, i)
              IN  /\ a = b /\ IterEq(a, b)
                  /\ a.off_from_end = U(SizeOf(h) - i)
                  /\ b.off_from_end = U(SizeOf(h) - i)
                  /\ ESetIterator_entry(internals, a).out = "ok"
                  /\ ESetIterator_entry(internals, a)
                        = ESetIterator_entry(internals, b)
                  /\ ESetIterator_entry(internals, a).term
                        = internals[esets[h].internal].items[i + 1].term
                  /\ ESetIterator_entry(internals, a).weight
                        = internals[esets[h].internal].items[i + 1].weight
    /\ last.op = "at" /\ last.i < SizeOf(last.h) =>
          iters[last.c] = AdvanceN(ESet_begin(internals, esets[last.h]).it, last.i)

\* C5's case: an iterator has been advanced to the position operator[]
\* returned for index 1, where another iterator is.
C5_Witness ==
    /\ last.op = "preinc"
    /\ \E h \in LiveHandles :
          /\ SizeOf(h) >= 2
          /\ iters[last.c] = ESet_at(internals, esets[h], U(1)).it
          /\ last.pre = ESet_begin(internals, esets[h]).it.off_from_end
    /\ \E d \in LiveCursors \ {last.c} : iters[d] = iters[last.c]

\* C7: a -- directly after a ++ from a valid position leaves the iterator at
\* the position it started from, in the prefix and the postfix forms, and the
\* postfix forms return an iterator at the position before the move.
C7_AdvanceRetreatRoundTrip ==
    /\ ( /\ last.op \in {"predec", "postdec"} /\ last.start
          /\ UInRange(last.rt, IterSize(iters[last.c])) ) =>
            /\ iters[last.c].off_from_end = last.rt
            /\ Positioned(internals, iters[last.c])
    /\ last.op \in {"postinc", "postdec"} =>
            /\ iters[last.d].alive
            /\ iters[last.d].off_from_end = last.pre
            /\ iters[last.d].eset = iters[last.c].eset
            /\ last.op = "postinc" => iters[last.c].off_from_end = UDec(last.pre)
            /\ last.op = "postdec" => iters[last.c].off_from_end = UInc(last.pre)
    /\ \A c \in LiveCursors :
          Positioned(internals, iters[c]) =>
              LET it == iters[c]
                  p == ESetIterator_postinc(internals, it)
                  q == ESetIterator_postdec(p.st, p.self)
              IN  /\ ESetIterator_predec(ESetIterator_preinc(it)) = it
                  /\ IterEq(ESetIterator_predec(ESetIterator_preinc(it)), it)
                  /\ IterEq(p.retval, it)
                  /\ IterEq(q.retval, p.self)
                  /\ IterEq(q.self, it)

\* C7's case: an iterator on the first of two entries was advanced and then
\* retreated, and is on the first entry again.
C7_Witness ==
    /\ last.op = "predec" /\ last.start
    /\ IterSize(iters[last.c]) = 2
    /\ last.rt = U(2)
    /\ iters[last.c].off_from_end = last.rt

\* C8: for an ESet with entries, back() is end() retreated once, and it is
\* on the last entry, of index size() - 1.
C8_BackIsEndRetreated ==
    /\ \A h \in LiveHandles :
          SizeOf(h) >= 1 =>
              LET b == ESet_back(internals, esets[h]).it
                  e == ESetIterator_predec(ESet_end(internals, esets[h]).it)
              IN  /\ b = e /\ IterEq(b, e)
                  /\ Positioned(internals, b)
                  /\ IndexOf(internals, b) = SizeOf(h) - 1
                  /\ ESetIterator_entry(internals, b).term
                        = internals[esets[h].internal].items[SizeOf(h)].term
    /\ last.op = "back" /\ SizeOf(last.h) >= 1 =>
          /\ IterEq(iters[last.c],
                    ESetIterator_predec(ESet_end(internals, esets[last.h]).it))
          /\ IndexOf(internals, iters[last.c]) = SizeOf(last.h) - 1
    /\ ( /\ last.op \in {"predec", "postdec"} /\ last.pre = U(0)
          /\ IterSize(iters[last.c]) >= 1 ) =>
          IterEq(iters[last.c],
                 ESet_back(internals, EmbeddedESet(iters[last.c])).it)

\* C8's case: an iterator end() returned for a set of two entries has been
\* retreated once, and an iterator back() returned for the set is alive too.
C8_Witness ==
    /\ last.op = "predec" /\ last.pre = U(0)
    /\ IterSize(iters[last.c]) = 2
    /\ \E d \in LiveCursors \ {last.c} :
          /\ iters[d] = ESet_back(internals, EmbeddedESet(iters[last.c])).it
          /\ IterEq(iters[d], iters[last.c])
          /\ IndexOf(internals, iters[d]) = 1

\* C9: two iterators are equal exactly when their offsets from the end are,
\* whatever ESet each is on; a default-constructed iterator equals end() of
\* every ESet; and != is the negation of ==.
C9_EqualityIsPositionOnly ==
    /\ \A a, b \in LiveCursors :
          /\ IterEq(iters[a], iters[b]) <=>
                /\ iters[a].off_from_end.hi = iters[b].off_from_end.hi
                /\ iters[a].off_from_end.lo = iters[b].off_from_end.lo
          /\ IterNe(iters[a], iters[b]) <=> ~IterEq(iters[a], iters[b])
    /\ \A h \in LiveHandles :
          /\ IterEq(ESetIterator_default, ESet_end(internals, esets[h]).it)
          /\ ~IterNe(ESetIterator_default, ESet_end(internals, esets[h]).it)
    /\ \A h, g \in LiveHandles : \A k \in 0 .. MaxLen :
          IterEq(ESetIterator_ctor(internals, esets[h], U(k)).it,
                 ESetIterator_ctor(internals, esets[g], U(k)).it)

\* C9's case: two iterators on two different stores, both on an entry at the
\* same offset from the end, and they compare equal.
C9_Witness ==
    \E a, b \in LiveCursors :
        /\ iters[a].eset # NULL /\ iters[b].eset # NULL
        /\ iters[a].eset # iters[b].eset
        /\ Positioned(internals, iters[a]) /\ Positioned(internals, iters[b])
        /\ IterEq(iters[a], iters[b])
        /\ last.op \in {"preinc", "predec"}

====
